---- MODULE Spec2Model ----
(***************************************************************************)
(* fastq-dl: the acquisition engine of src/fastq-dl.py as a state machine. *)
(*                                                                         *)
(* Storage is a map from paths to files (inode, bytes).  Every function of *)
(* the program that the properties are about has a frame variable holding  *)
(* its arguments, its locals and its position (pc); a caller waits at its  *)
(* call site until the callee's frame is at "ret".  External programs      *)
(* (ascp, wget, fasterq-dump, pigz, cat) are opaque: each invocation picks *)
(* an exit status and an effect on storage nondeterministically, and is    *)
(* appended to the log cmds.                                               *)
(***************************************************************************)
EXTENDS Integers, Sequences, FiniteSets, TLC

VARIABLES
    fs,     \* storage: path -> [ino, data], defined on the paths that exist
    cmds,   \* the external commands invoked so far, in order
    proc,   \* the process: "run", "done", "exit1" (sys.exit(1)), "raised"
    ncbi,   \* the sra-toolkit settings under $HOME/.ncbi
    ex,     \* frame of execute
    dl,     \* frame of download_ena_fastq
    ena,    \* frame of ena_download
    sra,    \* frame of sra_download
    mr,     \* frame of merge_runs
    mn      \* frame of main

vars == <<fs, cmds, proc, ncbi, ex, dl, ena, sra, mr, mn>>

-----------------------------------------------------------------------------
(* Bounds *)

\* the largest --max_attempts tried
MaxAttempts == 2
\* the longest content an external program writes to a file
MaxDataLen == 1
\* the most files one run lists
MaxFiles == 3
\* the most files one merge_runs call is given
MaxMerge == 3
\* the most runs the query resolves to
MaxRuns == 2

-----------------------------------------------------------------------------
(* Values *)

Bytes == {0, 1}

RECURSIVE SeqsUpTo(_, _)
SeqsUpTo(S, n) ==
    IF n = 0 THEN {<<>>}
    ELSE LET shorter == SeqsUpTo(S, n - 1)
         IN  shorter \cup {Append(s, b) : s \in {t \in shorter : Len(t) = n - 1}, b \in S}

\* what a transfer may leave in a file
DataSet == SeqsUpTo(Bytes, MaxDataLen)

\* ENA_FAILED, SRA_FAILED
ENA_FAILED == "ENA_NOT_FOUND"
SRA_FAILED == "SRA_NOT_FOUND"

\* Python's None, as a return value
PyNone == "None"

\* command.returncode after a run that did not fail, as a return value
Returncode0 == "0"

\* exit statuses of an external command: success, a failure, the
\* extraction tool's "no data for accession"
ExitCodes == {0, 1, 3}

\* a file name <stem><suf>.<ext>, e.g. ERR1143237_1.fastq.gz
Name(stem, suf, ext) == [stem |-> stem, suf |-> suf, ext |-> ext]
Gz(stem, suf) == Name(stem, suf, "fastq.gz")

-----------------------------------------------------------------------------
(* Storage *)

exists(f, p) == p \in DOMAIN f

\* the inode a newly created file gets: the smallest one not in use
FreshIno(f) ==
    LET used == {f[p].ino : p \in DOMAIN f}
    IN  CHOOSE n \in 1..(Cardinality(DOMAIN f) + 1) :
            /\ n \notin used
            /\ \A m \in 1..(n - 1) : m \in used

\* open(p, "w") and write: an existing file keeps its inode
WriteFile(f, p, data) ==
    LET ino == IF exists(f, p) THEN f[p].ino ELSE FreshIno(f)
    IN  [q \in DOMAIN f \cup {p} |->
            IF q = p THEN [ino |-> ino, data |-> data] ELSE f[q]]

\* os.remove / Path.unlink
RemoveFile(f, p) == [q \in DOMAIN f \ {p} |-> f[q]]

-----------------------------------------------------------------------------
(* md5sum *)

RECURSIVE SumBytes(_)
SumBytes(s) == IF s = <<>> THEN 0 ELSE Head(s) + SumBytes(Tail(s))

HexDigests == <<"d41d", "93b8", "c4ca">>

\* hashlib.md5 over the file's bytes: a many-to-one function of the content
hexdigest(data) == HexDigests[((Len(data) + 2 * SumBytes(data)) % Len(HexDigests)) + 1]

Md5Values == {HexDigests[i] : i \in DOMAIN HexDigests}

md5sum(f, fastq) == IF exists(f, fastq) THEN hexdigest(f[fastq].data) ELSE PyNone

-----------------------------------------------------------------------------
(* The external commands *)

\* the storage states one run of a transfer command (wget -O <fastq>, or
\* ascp into the output directory) can leave: the target untouched, or
\* written with any content
TransferEffects(f, target) == {f} \cup {WriteFile(f, target, d) : d \in DataSet}

Fastq(stem, suf) == Name(stem, suf, "fastq")

RECURSIVE WriteAll(_, _, _)
\* storage after each path of the set is written with data
WriteAll(f, paths, data) ==
    IF paths = {} THEN f
    ELSE LET p == CHOOSE q \in paths : TRUE
         IN  WriteAll(WriteFile(f, p, data), paths \ {p}, data)

\* what one run of fasterq-dump <accession> --split-files can leave in the
\* output directory: nothing, the reads of a single-end run (<acc>.fastq or
\* <acc>_1.fastq), or the two mates <acc>_1.fastq and <acc>_2.fastq
DumpEffects(f, acc) ==
    {WriteAll(f, S, <<0>>) : S \in {{}, {Fastq(acc, "")}, {Fastq(acc, "_1")},
                                      {Fastq(acc, "_1"), Fastq(acc, "_2")}}}

\* pigz --force *.fastq: every .fastq file of the directory is replaced by
\* its compressed .fastq.gz
gzip(data) == <<1>> \o data

RECURSIVE Compress(_, _)
Compress(f, paths) ==
    IF paths = {} THEN f
    ELSE LET p == CHOOSE q \in paths : TRUE
             gz == Gz(p.stem, p.suf)
             g == WriteFile(f, gz, gzip(f[p].data))
         IN  Compress(RemoveFile(g, p), paths \ {p})

PigzOutcomes(f) ==
    LET raw == {p \in DOMAIN f : p.ext = "fastq"}
    IN  {<<rc, f>> : rc \in ExitCodes \ {0}}
            \cup (IF raw = {} THEN {} ELSE {<<0, Compress(f, raw)>>})

RECURSIVE Concat(_, _)
\* the bytes of the files of list runs that exist, in list order
Concat(f, runs) ==
    IF runs = <<>> THEN <<>>
    ELSE (IF exists(f, Head(runs)) THEN f[Head(runs)].data ELSE <<>>)
             \o Concat(f, Tail(runs))

Range(s) == {s[k] : k \in DOMAIN s}

\* cat <runs> > output: the shell creates or truncates output, cat copies
\* the sources it can read and exits non-zero when one is missing; or the
\* copy fails on its way and leaves output empty
CatOutcomes(f, runs, output) ==
    LET g == WriteFile(f, output, <<>>)
        complete == \A k \in DOMAIN runs : exists(f, runs[k]) /\ runs[k] # output
    IN  {<<IF complete THEN 0 ELSE 1, WriteFile(g, output, Concat(g, runs))>>, <<1, g>>}

\* what one run of the command can do: <<exit status, storage after>>
CommandOutcomes(f, cmd) ==
    CASE cmd.tool \in {"wget", "ascp"} ->
            ExitCodes \X TransferEffects(f, cmd.target)
      [] cmd.tool = "fasterq-dump" -> ExitCodes \X DumpEffects(f, cmd.accession)
      [] cmd.tool = "pigz" -> PigzOutcomes(f)
      [] cmd.tool = "cat" -> CatOutcomes(f, cmd.runs, cmd.output)

-----------------------------------------------------------------------------
(* execute *)

ExIdle == [pc |-> "idle", cmd |-> [tool |-> "none"], attempt |-> 0,
           max_attempts |-> 0, is_sra |-> FALSE, ret |-> PyNone, rcs |-> <<>>]

\* the frame at the entry of execute(cmd, max_attempts=.., is_sra=..); rcs
\* is history: command.returncode of each attempt so far
ExCall(cmd, max_attempts, is_sra) ==
    [pc |-> "loop", cmd |-> cmd, attempt |-> 0, max_attempts |-> max_attempts,
     is_sra |-> is_sra, ret |-> PyNone, rcs |-> <<>>]

\* a variant of the outcome that takes exit code 3 for not-found whatever
\* is_sra says
ExecuteAfterAny3(e, rc) ==
    IF rc = 0 THEN [e EXCEPT !.pc = "ret", !.ret = Returncode0]
    ELSE IF rc = 3 THEN [e EXCEPT !.pc = "ret", !.ret = SRA_FAILED]
    ELSE IF e.attempt < e.max_attempts THEN e
    ELSE [e EXCEPT !.pc = "raised"]

\* the value execute gives back after an attempt exited with rc, or
\* where it goes instead
ExecuteAfter(e, rc) ==
    IF rc = 0 THEN [e EXCEPT !.pc = "ret", !.ret = Returncode0]
    ELSE IF e.is_sra /\ rc = 3 THEN [e EXCEPT !.pc = "ret", !.ret = SRA_FAILED]
    ELSE IF e.attempt < e.max_attempts THEN e
    ELSE [e EXCEPT !.pc = "raised"]

\* one pass of the while loop: attempt += 1, the command runs, and the
\* return, the retry or the raise that follows
execute_attempt ==
    /\ proc = "run"
    /\ ex.pc = "loop"
    /\ ex.attempt < ex.max_attempts
    /\ \E o \in CommandOutcomes(fs, ex.cmd) :
          LET e1 == [ex EXCEPT !.attempt = @ + 1, !.rcs = Append(@, o[1])]
              e2 == ExecuteAfter(e1, o[1])
          IN  /\ fs' = o[2]
              /\ cmds' = Append(cmds, ex.cmd)
              /\ ex' = e2
              /\ proc' = IF e2.pc = "raised" THEN "raised" ELSE proc
    /\ UNCHANGED <<ncbi, dl, ena, sra, mr, mn>>

\* the while condition is false on entry (max_attempts <= 0): the function
\* falls off its end and returns None
execute_skip ==
    /\ proc = "run"
    /\ ex.pc = "loop"
    /\ ~(ex.attempt < ex.max_attempts)
    /\ ex' = [ex EXCEPT !.pc = "ret", !.ret = PyNone]
    /\ UNCHANGED <<fs, cmds, proc, ncbi, dl, ena, sra, mr, mn>>

-----------------------------------------------------------------------------
(* download_ena_fastq *)

DlIdle == [pc |-> "idle", fastq |-> Gz("none", ""), md5 |-> "", ftp_only0 |-> FALSE,
           ftp_only |-> FALSE, max_attempts |-> 0, attempt |-> 0,
           success |-> FALSE, ret |-> PyNone, existed |-> FALSE, passes |-> <<>>,
           before |-> <<>>, ncmds |-> 0]

\* the frame at the entry of download_ena_fastq(fasp, ftp, outdir, md5, ..):
\* fastq is outdir/basename(fasp).  History, for the properties: ftp_only0
\* is the argument as passed, existed whether the target was there, passes
\* the passes of the loop so far, each with its transport and its verdict,
\* before the storage as it was at the call, ncmds how many commands had run
DlCall(fasp, md5, max_attempts, ftp_only) ==
    [pc |-> "start", fastq |-> fasp, md5 |-> md5, ftp_only0 |-> ftp_only,
     ftp_only |-> ftp_only, max_attempts |-> max_attempts, attempt |-> 0,
     success |-> FALSE, ret |-> PyNone, existed |-> FALSE, passes |-> <<>>,
     before |-> fs, ncmds |-> Len(cmds)]

\* a variant of the entry that transfers whether or not the file is there
download_ena_fastq_enter_always ==
    /\ proc = "run"
    /\ dl.pc = "start"
    /\ dl' = [dl EXCEPT !.pc = "transfer", !.existed = exists(fs, dl.fastq)]
    /\ UNCHANGED <<fs, cmds, proc, ncbi, ex, ena, sra, mr, mn>>

\* if not os.path.exists(fastq): ... else straight to return fastq
download_ena_fastq_enter ==
    /\ proc = "run"
    /\ dl.pc = "start"
    /\ dl' = IF exists(fs, dl.fastq)
             THEN [dl EXCEPT !.pc = "ret", !.ret = dl.fastq, !.existed = TRUE]
             ELSE [dl EXCEPT !.pc = "transfer"]
    /\ UNCHANGED <<fs, cmds, proc, ncbi, ex, ena, sra, mr, mn>>

\* the command of one pass of "while not success"
DlCommand(d) ==
    IF d.ftp_only THEN [tool |-> "wget", target |-> d.fastq]
                  ELSE [tool |-> "ascp", target |-> d.fastq]

\* while not success: execute(wget ...) or execute(ascp ...)
download_ena_fastq_transfer ==
    /\ proc = "run"
    /\ dl.pc = "transfer"
    /\ ex.pc = "idle"
    /\ ex' = ExCall(DlCommand(dl), dl.max_attempts, FALSE)
    /\ dl' = [dl EXCEPT !.pc = "verify"]
    /\ UNCHANGED <<fs, cmds, proc, ncbi, ena, sra, mr, mn>>

\* a variant of the mismatch handling that does not count the attempt
DlMismatchNoCount(d) == [d EXCEPT !.pc = "transfer"]

\* a variant of the mismatch handling that starts over on every exhausted
\* budget and never exits
DlMismatchRetry(d) ==
    LET a == d.attempt + 1
    IN  IF a > d.max_attempts
        THEN [d EXCEPT !.attempt = 0, !.ftp_only = TRUE, !.pc = "transfer"]
        ELSE [d EXCEPT !.attempt = a, !.pc = "transfer"]

\* the frame after a digest mismatch: attempt += 1, then the switch to
\* plain transport with the counter reset, or the fatal exit
DlMismatch(d) ==
    LET a == d.attempt + 1
    IN  IF a > d.max_attempts
        THEN IF ~d.ftp_only
             THEN [d EXCEPT !.attempt = 0, !.ftp_only = TRUE, !.pc = "transfer"]
             ELSE [d EXCEPT !.attempt = a, !.pc = "exit"]
        ELSE [d EXCEPT !.attempt = a, !.pc = "transfer"]

\* the frame after a digest match: success = True, the loop ends, return fastq
DlAccept(d) == [d EXCEPT !.success = TRUE, !.pc = "ret", !.ret = d.fastq]

\* the digest test that gates acceptance
DlDigestOk(f, d) == md5sum(f, d.fastq) = d.md5

\* a variant of the verification that leaves a mismatching file in place
download_ena_fastq_verify_keep ==
    /\ proc = "run"
    /\ dl.pc = "verify"
    /\ ex.pc = "ret"
    /\ ex' = ExIdle
    /\ LET ok == DlDigestOk(fs, dl)
           d1 == [dl EXCEPT !.passes = Append(@, [tool |-> DlCommand(dl).tool, ok |-> ok])]
       IN  IF ~ok
           THEN LET d2 == DlMismatch(d1)
                IN  /\ fs' = fs
                    /\ dl' = d2
                    /\ proc' = IF d2.pc = "exit" THEN "exit1" ELSE proc
           ELSE /\ dl' = DlAccept(d1)
                /\ UNCHANGED <<fs, proc>>
    /\ UNCHANGED <<cmds, ncbi, ena, sra, mr, mn>>

\* after execute returned: fastq_md5 = md5sum(fastq) and the rest of the pass
download_ena_fastq_verify ==
    /\ proc = "run"
    /\ dl.pc = "verify"
    /\ ex.pc = "ret"
    /\ ex' = ExIdle
    /\ LET ok == DlDigestOk(fs, dl)
           d1 == [dl EXCEPT !.passes = Append(@, [tool |-> DlCommand(dl).tool, ok |-> ok])]
       IN  IF ~ok
           THEN LET d2 == DlMismatch(d1)
                IN  /\ fs' = IF exists(fs, dl.fastq) THEN RemoveFile(fs, dl.fastq) ELSE fs
                    /\ dl' = d2
                    /\ proc' = IF d2.pc = "exit" THEN "exit1" ELSE proc
           ELSE /\ dl' = DlAccept(d1)
                /\ UNCHANGED <<fs, proc>>
    /\ UNCHANGED <<cmds, ncbi, ena, sra, mr, mn>>

-----------------------------------------------------------------------------
(* ena_download *)

\* the "" of the initial fastqs, and the one entry "".split(";") gives
EmptyPath == Name("", "", "")

\* fastqs = {"r1": "", "r2": "", "single_end": True}; a provider's value is
\* this dictionary (tag "fastqs") or one of the strings ENA_FAILED, SRA_FAILED
\* (the tag alone counts then)
NewFastqs == [tag |-> "fastqs", r1 |-> EmptyPath, r2 |-> EmptyPath, single_end |-> TRUE]
NotFound(tag) == [NewFastqs EXCEPT !.tag = tag]

\* str.split(";") of a field held as the list of its entries: the empty
\* string gives one empty entry
split(field, empty) == IF field = <<>> THEN <<empty>> ELSE field

endswith(name, suf) == name.suf = suf /\ name.ext = "fastq.gz"

\* is_r2 for the file at position i
EnaIsR2(run, fasp, i) ==
    run.library_layout = "PAIRED" /\ endswith(fasp[i], "_2")

\* the "continue" of the PAIRED filter: the file is left out
EnaSkips(run, fasp, i) ==
    /\ run.library_layout = "PAIRED"
    /\ ~endswith(fasp[i], "_2")
    /\ ~endswith(fasp[i], "_1")
    /\ LET obs_fq == fasp[i]
           exp_fq == Gz(run.run_accession, "")
       IN  Len(fasp) # 1 /\ obs_fq # exp_fq

EnaIdle == [pc |-> "idle", run |-> [run_accession |-> "none"], max_attempts |-> 0,
            ftp_only |-> FALSE, fasp |-> <<>>, ftp |-> <<>>, md5 |-> <<>>, i |-> 0,
            is_r2 |-> FALSE, fastqs |-> NewFastqs, ret |-> NewFastqs, called |-> <<>>,
            before |-> <<>>, ncmds |-> 0]

\* the frame at the entry of ena_download(run, outdir, max_attempts, ftp_only);
\* history: called lists the files handed to download_ena_fastq, in order,
\* before is the storage as it was at the call, ncmds how many commands
\* had run
EnaCall(run, max_attempts, ftp_only) ==
    [EnaIdle EXCEPT !.pc = "start", !.run = run, !.max_attempts = max_attempts,
                    !.ftp_only = ftp_only, !.before = fs, !.ncmds = Len(cmds)]

\* if not ftp and not fasp: return ENA_FAILED; else the three splits
ena_download_enter ==
    /\ proc = "run"
    /\ ena.pc = "start"
    /\ LET fasp == ena.run.fastq_aspera
           ftp == ena.run.fastq_ftp
       IN  ena' = IF ftp = <<>> /\ fasp = <<>>
                  THEN [ena EXCEPT !.pc = "ret", !.ret = NotFound(ENA_FAILED)]
                  ELSE [ena EXCEPT !.pc = "loop", !.i = 1,
                                   !.fasp = split(fasp, EmptyPath),
                                   !.ftp = split(ftp, EmptyPath),
                                   !.md5 = split(ena.run.fastq_md5, "")]
    /\ UNCHANGED <<fs, cmds, proc, ncbi, ex, dl, sra, mr, mn>>

\* one pass of "for i in range(len(fasp))" up to the download call: the
\* file is filtered out, or has no checksum, or is handed to
\* download_ena_fastq
ena_download_file ==
    /\ proc = "run"
    /\ ena.pc = "loop"
    /\ ena.i <= Len(ena.fasp)
    /\ dl.pc = "idle"
    /\ LET i == ena.i
       IN  IF EnaSkips(ena.run, ena.fasp, i) \/ ena.md5[i] = ""
           THEN /\ ena' = [ena EXCEPT !.i = i + 1]
                /\ UNCHANGED dl
           ELSE /\ ena' = [ena EXCEPT !.pc = "wait",
                                      !.is_r2 = EnaIsR2(ena.run, ena.fasp, i),
                                      !.called = Append(@, ena.fasp[i])]
                /\ dl' = DlCall(ena.fasp[i], ena.md5[i], ena.max_attempts, ena.ftp_only)
    /\ UNCHANGED <<fs, cmds, proc, ncbi, ex, sra, mr, mn>>

\* fastqs with the downloaded file put in its slot
EnaAssign(fastqs, is_r2, fastq) ==
    IF is_r2 THEN [fastqs EXCEPT !.r2 = fastq, !.single_end = FALSE]
             ELSE [fastqs EXCEPT !.r1 = fastq]

\* download_ena_fastq returned: the rest of the pass
ena_download_assign ==
    /\ proc = "run"
    /\ ena.pc = "wait"
    /\ dl.pc = "ret"
    /\ ena' = [ena EXCEPT !.pc = "loop", !.i = @ + 1,
                          !.fastqs = EnaAssign(@, ena.is_r2, dl.ret)]
    /\ dl' = DlIdle
    /\ UNCHANGED <<fs, cmds, proc, ncbi, ex, sra, mr, mn>>

\* the loop is over: return fastqs
ena_download_return ==
    /\ proc = "run"
    /\ ena.pc = "loop"
    /\ ena.i > Len(ena.fasp)
    /\ ena' = [ena EXCEPT !.pc = "ret", !.ret = ena.fastqs]
    /\ UNCHANGED <<fs, cmds, proc, ncbi, ex, dl, sra, mr, mn>>

-----------------------------------------------------------------------------
(* check_sratools *)

\* $HOME/.ncbi: home and user say whether the directory and the file
\* user-settings.mkfg exist, lines is the file's content, each line a GUID
\* entry (/LIBS/GUID = "<uuid>") or something else
NcbiStates(uuids) ==
    LET Lines == {[guid |-> TRUE, uuid |-> u] : u \in uuids}
                     \cup {[guid |-> FALSE, uuid |-> "other"]}
    IN  {[home |-> FALSE, user |-> FALSE, lines |-> <<>>],
         [home |-> TRUE, user |-> FALSE, lines |-> <<>>]}
        \cup {[home |-> TRUE, user |-> TRUE, lines |-> l] : l \in SeqsUpTo(Lines, 2)}

\* no $HOME/.ncbi yet
NcbiFresh == [home |-> FALSE, user |-> FALSE, lines |-> <<>>]

\* the identifier uuid4() gives: one no line of the file holds yet
Uuid4 == "uuid4"

\* a variant of the setup that writes a GUID entry whatever the file holds
check_sratools_always(n) ==
    [home |-> TRUE, user |-> TRUE,
     lines |-> Append(n.lines, [guid |-> TRUE, uuid |-> Uuid4])]

\* the settings after check_sratools()
check_sratools(n) ==
    LET uuid_found == \E k \in DOMAIN n.lines : n.lines[k].guid
        needs_setup == ~n.home \/ ~n.user \/ ~uuid_found
    IN  IF needs_setup
        THEN [home |-> TRUE, user |-> TRUE,
              lines |-> Append(n.lines, [guid |-> TRUE, uuid |-> Uuid4])]
        ELSE n

-----------------------------------------------------------------------------
(* sra_download *)

SraIdle == [pc |-> "idle", accession |-> "none", max_attempts |-> 0, ret |-> NewFastqs,
            before |-> <<>>, ncmds |-> 0, ncbi0 |-> NcbiFresh]

\* the frame at the entry of sra_download(accession, outdir, max_attempts);
\* history: before is the storage as it was at the call, ncmds how many
\* commands had run, ncbi0 the settings as they were
SraCall(accession, max_attempts) ==
    [SraIdle EXCEPT !.pc = "start", !.accession = accession, !.max_attempts = max_attempts,
                    !.before = fs, !.ncmds = Len(cmds), !.ncbi0 = ncbi]

\* a variant of the inspection that looks for the first mate
SraFastqsByFirst(f, accession) ==
    IF exists(f, Gz(accession, "_1"))
    THEN [NewFastqs EXCEPT !.r1 = Gz(accession, "_1"), !.r2 = Gz(accession, "_2"),
                           !.single_end = FALSE]
    ELSE [NewFastqs EXCEPT !.r1 = Gz(accession, "")]

\* the inspection of the output directory that ends sra_download
SraFastqs(f, accession) ==
    IF exists(f, Gz(accession, "_2"))
    THEN [NewFastqs EXCEPT !.r1 = Gz(accession, "_1"), !.r2 = Gz(accession, "_2"),
                           !.single_end = FALSE]
    ELSE [NewFastqs EXCEPT !.r1 = Gz(accession, "")]

\* check_sratools(), then the test of se and pe: the extraction tool is
\* started, or the directory is inspected right away
sra_download_enter ==
    /\ proc = "run"
    /\ sra.pc = "start"
    /\ ex.pc = "idle"
    /\ ncbi' = check_sratools(ncbi)
    /\ LET se == Gz(sra.accession, "")
           pe == Gz(sra.accession, "_2")
       IN  IF ~exists(fs, se) /\ ~exists(fs, pe)
           THEN /\ ex' = ExCall([tool |-> "fasterq-dump", accession |-> sra.accession],
                                sra.max_attempts, TRUE)
                /\ sra' = [sra EXCEPT !.pc = "dump"]
           ELSE /\ sra' = [sra EXCEPT !.pc = "ret", !.ret = SraFastqs(fs, sra.accession)]
                /\ UNCHANGED ex
    /\ UNCHANGED <<fs, cmds, proc, dl, ena, mr, mn>>

\* execute(fasterq-dump ...) returned: SRA_FAILED is passed on, anything
\* else starts pigz
sra_download_dumped ==
    /\ proc = "run"
    /\ sra.pc = "dump"
    /\ ex.pc = "ret"
    /\ IF ex.ret = SRA_FAILED
       THEN /\ sra' = [sra EXCEPT !.pc = "ret", !.ret = NotFound(SRA_FAILED)]
            /\ ex' = ExIdle
       ELSE /\ sra' = [sra EXCEPT !.pc = "pigz"]
            /\ ex' = ExCall([tool |-> "pigz"], 1, FALSE)
    /\ UNCHANGED <<fs, cmds, proc, ncbi, dl, ena, mr, mn>>

\* execute(pigz ...) returned: the directory is inspected, return fastqs
sra_download_compressed ==
    /\ proc = "run"
    /\ sra.pc = "pigz"
    /\ ex.pc = "ret"
    /\ ex' = ExIdle
    /\ sra' = [sra EXCEPT !.pc = "ret", !.ret = SraFastqs(fs, sra.accession)]
    /\ UNCHANGED <<fs, cmds, proc, ncbi, dl, ena, mr, mn>>

-----------------------------------------------------------------------------
(* merge_runs *)

\* a variant of the rename that copies the bytes into a new file
RenameAsCopy(f, src, output) == RemoveFile(WriteFile(f, output, f[src].data), src)

\* Path(src).rename(output) on a source that exists
Rename(f, src, output) ==
    [q \in (DOMAIN f \ {src}) \cup {output} |-> IF q = output THEN f[src] ELSE f[q]]

\* a variant of the unlink loop that stops after the first file
UnlinkFirstOnly(f, runs) ==
    IF runs = <<>> THEN <<f, FALSE>>
    ELSE IF ~exists(f, Head(runs)) THEN <<f, TRUE>>
    ELSE <<RemoveFile(f, Head(runs)), FALSE>>

RECURSIVE UnlinkAll(_, _)
\* for p in runs: Path(p).unlink(); the second component tells whether a
\* path was missing (FileNotFoundError, the loop stops there)
UnlinkAll(f, runs) ==
    IF runs = <<>> THEN <<f, FALSE>>
    ELSE IF ~exists(f, Head(runs)) THEN <<f, TRUE>>
    ELSE UnlinkAll(RemoveFile(f, Head(runs)), Tail(runs))

MrIdle == [pc |-> "idle", runs |-> <<>>, output |-> EmptyPath, before |-> <<>>,
           ncmds |-> 0]

\* the frame at the entry of merge_runs(runs, output); before and ncmds are
\* history: storage as it was at the call, and how many commands had run
MrCall(runs, output, f, log) ==
    [pc |-> "start", runs |-> runs, output |-> output, before |-> f,
     ncmds |-> Len(log)]

\* if len(runs) > 1: execute(cat ...); else: the rename (runs[0] of an empty
\* list, or a source that is not there, raises)
merge_runs_enter ==
    /\ proc = "run"
    /\ mr.pc = "start"
    /\ ex.pc = "idle"
    /\ IF Len(mr.runs) > 1
       THEN /\ ex' = ExCall([tool |-> "cat", runs |-> mr.runs, output |-> mr.output],
                            1, FALSE)
            /\ mr' = [mr EXCEPT !.pc = "cat"]
            /\ UNCHANGED <<fs, proc>>
       ELSE IF mr.runs = <<>> \/ ~exists(fs, mr.runs[1])
       THEN /\ proc' = "raised"
            /\ mr' = [mr EXCEPT !.pc = "raised"]
            /\ UNCHANGED <<fs, ex>>
       ELSE /\ fs' = Rename(fs, mr.runs[1], mr.output)
            /\ mr' = [mr EXCEPT !.pc = "ret"]
            /\ UNCHANGED <<proc, ex>>
    /\ UNCHANGED <<cmds, ncbi, dl, ena, sra, mn>>

\* execute(cat ...) returned: the sources are unlinked
merge_runs_unlink ==
    /\ proc = "run"
    /\ mr.pc = "cat"
    /\ ex.pc = "ret"
    /\ ex' = ExIdle
    /\ LET u == UnlinkAll(fs, mr.runs)
       IN  /\ fs' = u[1]
           /\ mr' = [mr EXCEPT !.pc = IF u[2] THEN "raised" ELSE "ret"]
           /\ proc' = IF u[2] THEN "raised" ELSE proc
    /\ UNCHANGED <<cmds, ncbi, dl, ena, sra, mn>>

-----------------------------------------------------------------------------
(* main *)

\* the merge groups: runs[name] = {"r1": [], "r2": []}
NewGroup == [r1 |-> <<>>, r2 |-> <<>>]

MnIdle == [pc |-> "idle", args |-> [provider |-> "none"], ena_data |-> <<>>, i |-> 0,
           runs |-> <<>>, names |-> <<>>, g |-> 0, paired |-> FALSE,
           calls |-> <<>>, merges |-> <<>>,
           mergers_json |-> PyNone, info_json |-> PyNone]

\* the frame of main when the run loop starts.  runs is the dictionary of
\* groups and names its keys in insertion order; g is the position of the
\* merge loop.  History: calls lists the provider calls <<run, provider>>,
\* merges the merge_runs calls; the two json fields are what write_json
\* wrote
MnCall(args, ena_data) ==
    [MnIdle EXCEPT !.pc = "loop", !.args = args, !.ena_data = ena_data, !.i = 1]

Grouping(args) == args.group_by_experiment \/ args.group_by_sample

\* a variant of the addition that files a paired run's second mate alone
AddResultsSecondMate(m, run_info, fastqs) ==
    IF fastqs.tag = "fastqs" /\ Grouping(m.args)
    THEN LET name == IF m.args.group_by_experiment
                     THEN run_info.experiment_accession
                     ELSE run_info.sample_accession
             known == \E k \in DOMAIN m.names : m.names[k] = name
             old == IF known THEN m.runs[name] ELSE NewGroup
             new == IF fastqs.single_end
                    THEN [old EXCEPT !.r1 = Append(@, fastqs.r1)]
                    ELSE [old EXCEPT !.r2 = Append(@, fastqs.r2)]
         IN  [m EXCEPT !.runs = [n \in DOMAIN m.runs \cup {name} |->
                                    IF n = name THEN new ELSE m.runs[n]],
                       !.names = IF known THEN @ ELSE Append(@, name)]
    ELSE m

\* a variant of the addition that does not test fastqs
AddResultsAlways(m, run_info, fastqs) ==
    IF Grouping(m.args)
    THEN LET name == IF m.args.group_by_experiment
                     THEN run_info.experiment_accession
                     ELSE run_info.sample_accession
             known == \E k \in DOMAIN m.names : m.names[k] = name
             old == IF known THEN m.runs[name] ELSE NewGroup
             new == IF fastqs.single_end
                    THEN [old EXCEPT !.r1 = Append(@, fastqs.r1)]
                    ELSE [old EXCEPT !.r1 = Append(@, fastqs.r1),
                                     !.r2 = Append(@, fastqs.r2)]
         IN  [m EXCEPT !.runs = [n \in DOMAIN m.runs \cup {name} |->
                                    IF n = name THEN new ELSE m.runs[n]],
                       !.names = IF known THEN @ ELSE Append(@, name)]
    ELSE m

\* "# Add the download results": fastqs is a provider's dictionary, or
\* None (tag PyNone)
AddResults(m, run_info, fastqs) ==
    IF fastqs.tag = "fastqs" /\ Grouping(m.args)
    THEN LET name == IF m.args.group_by_experiment
                     THEN run_info.experiment_accession
                     ELSE run_info.sample_accession
             known == \E k \in DOMAIN m.names : m.names[k] = name
             old == IF known THEN m.runs[name] ELSE NewGroup
             new == IF fastqs.single_end
                    THEN [old EXCEPT !.r1 = Append(@, fastqs.r1)]
                    ELSE [old EXCEPT !.r1 = Append(@, fastqs.r1),
                                     !.r2 = Append(@, fastqs.r2)]
         IN  [m EXCEPT !.runs = [n \in DOMAIN m.runs \cup {name} |->
                                    IF n = name THEN new ELSE m.runs[n]],
                       !.names = IF known THEN @ ELSE Append(@, name)]
    ELSE m

\* ena_data[i]["error"] = tag
SetError(m, tag) == [m EXCEPT !.ena_data[m.i].error = tag]

\* the end of one pass of the run loop
NextRun(m) == [m EXCEPT !.pc = "loop", !.i = @ + 1]

\* a variant of the switch in which --only-provider is read for ENA alone
FallbackDisabledSraOnly(args) ==
    IF args.provider = "ena" THEN args.only_provider ELSE args.sra_only

\* whether the fallback to the other provider is switched off
FallbackDisabled(args) ==
    IF args.provider = "ena" THEN args.only_provider
                             ELSE args.sra_only \/ args.only_provider

FailedTag(provider) == IF provider = "ena" THEN ENA_FAILED ELSE SRA_FAILED
Other(provider) == IF provider = "ena" THEN "sra" ELSE "ena"

\* a variant of the compound tag with the two tags the other way round
CompoundTagSwapped(provider) ==
    IF provider = "ena" THEN SRA_FAILED \o "&" \o ENA_FAILED
                        ELSE ENA_FAILED \o "&" \o SRA_FAILED

\* the tag of a run both providers have no data for:
\* f"{ENA_FAILED}&{SRA_FAILED}", or f"{SRA_FAILED}&{ENA_FAILED}"
CompoundTag(provider) ==
    IF provider = "ena" THEN ENA_FAILED \o "&" \o SRA_FAILED
                        ELSE SRA_FAILED \o "&" \o ENA_FAILED

\* the call of a provider's downloader for run i
CallProvider(provider, m) ==
    LET run_info == m.ena_data[m.i]
    IN  IF provider = "ena"
        THEN /\ ena.pc = "idle"
             /\ ena' = EnaCall(run_info, m.args.max_attempts, m.args.ftp_only)
             /\ UNCHANGED sra
        ELSE /\ sra.pc = "idle"
             /\ sra' = SraCall(run_info.run_accession, m.args.max_attempts)
             /\ UNCHANGED ena

Returned(provider) == IF provider = "ena" THEN ena.pc = "ret" ELSE sra.pc = "ret"
Result(provider) == IF provider = "ena" THEN ena.ret ELSE sra.ret

\* the downloader's frame is dropped
Drop(provider) ==
    IF provider = "ena" THEN ena' = EnaIdle /\ UNCHANGED sra
                        ELSE sra' = SraIdle /\ UNCHANGED ena

\* for i, run_info in enumerate(ena_data): the primary provider is called
main_download ==
    /\ proc = "run"
    /\ mn.pc = "loop"
    /\ mn.i <= Len(mn.ena_data)
    /\ CallProvider(mn.args.provider, mn)
    /\ mn' = [mn EXCEPT !.pc = "primary",
                        !.calls = Append(@, <<mn.i, mn.args.provider>>)]
    /\ UNCHANGED <<fs, cmds, proc, ncbi, ex, dl, mr>>

\* the primary provider returned: its files are added, or its not-found is
\* recorded (fallback off), or the other provider is called
main_primary_returned ==
    /\ proc = "run"
    /\ mn.pc = "primary"
    /\ Returned(mn.args.provider)
    /\ LET provider == mn.args.provider
           fastqs == Result(provider)
           run_info == mn.ena_data[mn.i]
       IN  IF fastqs.tag = FailedTag(provider)
           THEN IF FallbackDisabled(mn.args)
                THEN /\ mn' = NextRun(AddResults(SetError(mn, FailedTag(provider)),
                                                 run_info, NotFound(PyNone)))
                     /\ Drop(provider)
                ELSE /\ mn' = [mn EXCEPT !.pc = "secondary",
                                         !.calls = Append(@, <<mn.i, Other(provider)>>)]
                     /\ IF provider = "ena"
                        THEN /\ ena' = EnaIdle
                             /\ sra.pc = "idle"
                             /\ sra' = SraCall(run_info.run_accession, mn.args.max_attempts)
                        ELSE /\ sra' = SraIdle
                             /\ ena.pc = "idle"
                             /\ ena' = EnaCall(run_info, mn.args.max_attempts,
                                               mn.args.ftp_only)
           ELSE /\ mn' = NextRun(AddResults(mn, run_info, fastqs))
                /\ Drop(provider)
    /\ UNCHANGED <<fs, cmds, proc, ncbi, ex, dl, mr>>

\* the other provider returned: its files are added, or the compound tag
\* is recorded
main_secondary_returned ==
    /\ proc = "run"
    /\ mn.pc = "secondary"
    /\ Returned(Other(mn.args.provider))
    /\ LET provider == Other(mn.args.provider)
           fastqs == Result(provider)
           run_info == mn.ena_data[mn.i]
       IN  /\ mn' = IF fastqs.tag = FailedTag(provider)
                    THEN NextRun(AddResults(SetError(mn, CompoundTag(mn.args.provider)),
                                            run_info, NotFound(PyNone)))
                    ELSE NextRun(AddResults(mn, run_info, fastqs))
           /\ Drop(provider)
    /\ UNCHANGED <<fs, cmds, proc, ncbi, ex, dl, mr>>

\* a variant of the test that does not compare the lengths
MergePairedAnyLength(vals) == Len(vals.r1) # 0 /\ Len(vals.r2) # 0

\* the test that sends a group to the paired merge
MergePaired(vals) ==
    Len(vals.r1) # 0 /\ Len(vals.r2) # 0 /\ Len(vals.r1) = Len(vals.r2)

\* the target of the first merge_runs call of a group
MergeOutput(name, vals) ==
    IF MergePaired(vals) THEN Gz(name, "_R1") ELSE Gz(name, "")

\* write_json(ena_data, ...): the last statement of main
WriteRunInfo(m) == [m EXCEPT !.pc = "done", !.info_json = m.ena_data]

\* a variant of the loop's end that comes after the first run
main_loop_end_early ==
    /\ proc = "run"
    /\ mn.pc = "loop"
    /\ mn.i > 1
    /\ IF mn.names # <<>> /\ ~mn.args.debug
       THEN /\ mn' = [mn EXCEPT !.pc = "merge", !.g = 1]
            /\ UNCHANGED proc
       ELSE /\ mn' = WriteRunInfo(mn)
            /\ proc' = "done"
    /\ UNCHANGED <<fs, cmds, ncbi, ex, dl, ena, sra, mr>>

\* the run loop is over: "if runs and not args.debug" starts the merge
\* loop, otherwise only the run info is written
main_loop_end ==
    /\ proc = "run"
    /\ mn.pc = "loop"
    /\ mn.i > Len(mn.ena_data)
    /\ IF mn.names # <<>> /\ ~mn.args.debug
       THEN /\ mn' = [mn EXCEPT !.pc = "merge", !.g = 1]
            /\ UNCHANGED proc
       ELSE /\ mn' = WriteRunInfo(mn)
            /\ proc' = "done"
    /\ UNCHANGED <<fs, cmds, ncbi, ex, dl, ena, sra, mr>>

\* for name, vals in runs.items(): the first merge_runs call of the group
main_merge ==
    /\ proc = "run"
    /\ mn.pc = "merge"
    /\ mn.g <= Len(mn.names)
    /\ mr.pc = "idle"
    /\ LET name == mn.names[mn.g]
           vals == mn.runs[name]
           output == MergeOutput(name, vals)
       IN  /\ mr' = MrCall(vals.r1, output, fs, cmds)
           /\ mn' = [mn EXCEPT !.pc = "merge_r1", !.paired = MergePaired(vals),
                               !.merges = Append(@, [name |-> name, runs |-> vals.r1,
                                                     output |-> output])]
    /\ UNCHANGED <<fs, cmds, proc, ncbi, ex, dl, ena, sra>>

\* merge_runs(vals["r1"], ..) returned: the paired case goes on with r2
main_merged_r1 ==
    /\ proc = "run"
    /\ mn.pc = "merge_r1"
    /\ mr.pc = "ret"
    /\ LET name == mn.names[mn.g]
           vals == mn.runs[name]
       IN  IF mn.paired
           THEN /\ mr' = MrCall(vals.r2, Gz(name, "_R2"), fs, cmds)
                /\ mn' = [mn EXCEPT !.pc = "merge_r2",
                                    !.merges = Append(@, [name |-> name, runs |-> vals.r2,
                                                          output |-> Gz(name, "_R2")])]
           ELSE /\ mr' = MrIdle
                /\ mn' = [mn EXCEPT !.pc = "merge", !.g = @ + 1]
    /\ UNCHANGED <<fs, cmds, proc, ncbi, ex, dl, ena, sra>>

\* merge_runs(vals["r2"], ..) returned: the next group
main_merged_r2 ==
    /\ proc = "run"
    /\ mn.pc = "merge_r2"
    /\ mr.pc = "ret"
    /\ mr' = MrIdle
    /\ mn' = [mn EXCEPT !.pc = "merge", !.g = @ + 1]
    /\ UNCHANGED <<fs, cmds, proc, ncbi, ex, dl, ena, sra>>

\* the merge loop is over: both manifests are written
main_finish ==
    /\ proc = "run"
    /\ mn.pc = "merge"
    /\ mn.g > Len(mn.names)
    /\ mn' = WriteRunInfo([mn EXCEPT !.mergers_json = mn.runs])
    /\ proc' = "done"
    /\ UNCHANGED <<fs, cmds, ncbi, ex, dl, ena, sra, mr>>

-----------------------------------------------------------------------------
(* Specification of one download_ena_fastq call *)

\* the file the call is about
DlTarget == Gz("ERR1", "_1")

\* storage before the call: the target absent, or there with any content
DlStorages == {<<>>} \cup {WriteFile(<<>>, DlTarget, d) : d \in DataSet}

InitDl ==
    /\ fs \in DlStorages
    /\ cmds = <<>>
    /\ proc = "run"
    /\ ncbi = NcbiFresh
    /\ ex = ExIdle
    /\ \E md5 \in Md5Values, m \in 0..MaxAttempts, ftp_only \in BOOLEAN :
          dl = DlCall(DlTarget, md5, m, ftp_only)
    /\ ena = EnaIdle
    /\ sra = SraIdle
    /\ mr = MrIdle
    /\ mn = MnIdle

NextDl ==
    \/ download_ena_fastq_enter
    \/ download_ena_fastq_transfer
    \/ execute_attempt
    \/ execute_skip
    \/ download_ena_fastq_verify

SpecDl == InitDl /\ [][NextDl]_vars

\* the same call in a process that keeps running: the interpreter takes the
\* next step of the one thread as long as there is one, and every command
\* started comes back
SpecDlFair == SpecDl /\ WF_vars(NextDl)

-----------------------------------------------------------------------------
(* Specification of one ena_download call *)

\* a row of the metadata table.  The three fastq_* fields are held as the
\* lists of their ";"-separated entries (<<>> is the empty string), entry
\* k of each for the same file; a URL is held as its basename
RunRecord(acc, exp, sample, layout, files, md5s) ==
    [run_accession |-> acc, experiment_accession |-> exp, sample_accession |-> sample,
     library_layout |-> layout, fastq_aspera |-> files, fastq_ftp |-> files,
     fastq_md5 |-> md5s, error |-> ""]

\* the checksum the table gives for a file of the model
GoodMd5 == HexDigests[2]

\* the file names a run of accession ERR1 may list: its own, suffixed or
\* not, and one of another stem
EnaNames == {Gz("ERR1", ""), Gz("ERR1", "_1"), Gz("ERR1", "_2"), Gz("ERR1", "_3"),
             Gz("ERR2", "")}

NoRepeat(s) == \A j, k \in DOMAIN s : s[j] = s[k] => j = k

\* the lists of at most MaxFiles different names
EnaFileLists == {l \in SeqsUpTo(EnaNames, MaxFiles) : NoRepeat(l)}

\* the checksum lists for n files: a checksum, or the empty entry
Md5Lists(n) == {m \in SeqsUpTo({GoodMd5, ""}, n) : Len(m) = n}

EnaRuns ==
    {RunRecord("ERR1", "ERX1", "SAMN1", layout, files, md5s) :
        layout \in {"PAIRED", "SINGLE"}, files \in {<<>>},
        md5s \in {<<>>}}
    \cup UNION {{RunRecord("ERR1", "ERX1", "SAMN1", layout, files, md5s) :
                    layout \in {"PAIRED", "SINGLE"}, md5s \in Md5Lists(Len(files))} :
                files \in EnaFileLists \ {<<>>}}

InitEna ==
    /\ fs = <<>>
    /\ cmds = <<>>
    /\ proc = "run"
    /\ ncbi = NcbiFresh
    /\ ex = ExIdle
    /\ dl = DlIdle
    /\ \E run \in EnaRuns, ftp_only \in BOOLEAN : ena = EnaCall(run, 1, ftp_only)
    /\ sra = SraIdle
    /\ mr = MrIdle
    /\ mn = MnIdle

NextEna ==
    \/ ena_download_enter
    \/ ena_download_file
    \/ ena_download_assign
    \/ ena_download_return
    \/ download_ena_fastq_enter
    \/ download_ena_fastq_transfer
    \/ execute_attempt
    \/ download_ena_fastq_verify

SpecEna == InitEna /\ [][NextEna]_vars
-----------------------------------------------------------------------------
(* Specification of one merge_runs call *)

\* the per-run files a merge may be given, and the group's target
MergeSources == {Gz("ERR1", ""), Gz("ERR2", ""), Gz("ERR3", "")}
MergeTarget == Gz("SAMN1", "")

\* storage before the call: any of the sources and the target, there with
\* any content, each file with an inode of its own
MergePaths == <<Gz("ERR1", ""), Gz("ERR2", ""), Gz("ERR3", ""), MergeTarget>>

MergeStorages ==
    UNION {{[p \in {MergePaths[k] : k \in K} |->
                [ino |-> CHOOSE k \in K : MergePaths[k] = p, data |-> c[p]]] :
              c \in [{MergePaths[k] : k \in K} -> DataSet]} :
           K \in SUBSET DOMAIN MergePaths}

InitMerge ==
    /\ fs \in MergeStorages
    /\ cmds = <<>>
    /\ proc = "run"
    /\ ncbi = NcbiFresh
    /\ ex = ExIdle
    /\ dl = DlIdle
    /\ ena = EnaIdle
    /\ sra = SraIdle
    /\ \E runs \in SeqsUpTo(MergeSources, MaxMerge) :
          mr = MrCall(runs, MergeTarget, fs, cmds)
    /\ mn = MnIdle

NextMerge ==
    \/ merge_runs_enter
    \/ execute_attempt
    \/ merge_runs_unlink

SpecMerge == InitMerge /\ [][NextMerge]_vars

-----------------------------------------------------------------------------
(* Specification of main: the run loop and the merge loop *)

\* the parsed command line, as far as the two loops read it; Aspera is
\* not set up, so main has forced ftp_only, and both grouping flags at
\* once group as --group-by-experiment alone does
MainArgs ==
    {a \in [provider : {"ena", "sra"}, only_provider : BOOLEAN, sra_only : BOOLEAN,
            group_by_experiment : BOOLEAN, group_by_sample : BOOLEAN, debug : BOOLEAN,
            ftp_only : {TRUE}, max_attempts : {1}] :
        ~(a.group_by_experiment /\ a.group_by_sample)}

RunAccessions == <<"ERR1", "ERR2", "ERR3", "ERR4">>

\* the rows the table may hold for run k: ENA lists no file, one file
\* <acc>.fastq.gz, or the two mates; the runs are of sample SAMN1, the
\* first of experiment ERX1, a later one of ERX1 or ERX2
RunRows(k) ==
    LET acc == RunAccessions[k]
        Exps == IF k = 1 THEN {"ERX1"} ELSE {"ERX1", "ERX2"}
    IN  {RunRecord(acc, exp, "SAMN1", "SINGLE", <<>>, <<>>) : exp \in Exps}
        \cup {RunRecord(acc, exp, "SAMN1", "SINGLE", <<Gz(acc, "")>>, <<GoodMd5>>) :
                exp \in Exps}
        \cup {RunRecord(acc, exp, "SAMN1", "PAIRED", <<Gz(acc, "_1"), Gz(acc, "_2")>>,
                        <<GoodMd5, GoodMd5>>) : exp \in Exps}

\* the tables of at most MaxRuns rows
RunTables ==
    UNION {{t \in [1..n -> UNION {RunRows(k) : k \in 1..n}] :
               \A k \in 1..n : t[k] \in RunRows(k)} : n \in 0..MaxRuns}

InitMain ==
    /\ fs = <<>>
    /\ cmds = <<>>
    /\ proc = "run"
    /\ ncbi = NcbiFresh
    /\ ex = ExIdle
    /\ dl = DlIdle
    /\ ena = EnaIdle
    /\ sra = SraIdle
    /\ mr = MrIdle
    /\ \E args \in MainArgs, ena_data \in RunTables : mn = MnCall(args, ena_data)

NextMain ==
    \/ main_download
    \/ main_primary_returned
    \/ main_secondary_returned
    \/ main_loop_end
    \/ main_merge
    \/ main_merged_r1
    \/ main_merged_r2
    \/ main_finish
    \/ ena_download_enter
    \/ ena_download_file
    \/ ena_download_assign
    \/ ena_download_return
    \/ download_ena_fastq_enter
    \/ download_ena_fastq_transfer
    \/ download_ena_fastq_verify
    \/ sra_download_enter
    \/ sra_download_dumped
    \/ sra_download_compressed
    \/ merge_runs_enter
    \/ merge_runs_unlink
    \/ execute_attempt

SpecMain == InitMain /\ [][NextMain]_vars

-----------------------------------------------------------------------------
(* Specification of one execute call *)

\* the commands of the two downloaders, each with is_sra set or not and
\* any attempt budget
ExecCommands == {[tool |-> "wget", target |-> Gz("ERR1", "")],
                 [tool |-> "fasterq-dump", accession |-> "ERR1"]}

InitExec ==
    /\ fs = <<>>
    /\ cmds = <<>>
    /\ proc = "run"
    /\ ncbi = NcbiFresh
    /\ \E cmd \in ExecCommands, m \in 0..MaxAttempts, is_sra \in BOOLEAN :
          ex = ExCall(cmd, m, is_sra)
    /\ dl = DlIdle
    /\ ena = EnaIdle
    /\ sra = SraIdle
    /\ mr = MrIdle
    /\ mn = MnIdle

NextExec ==
    \/ execute_attempt
    \/ execute_skip

SpecExec == InitExec /\ [][NextExec]_vars

-----------------------------------------------------------------------------
(* Specification of one ena_download call into a directory in use *)

\* the files run ERR1 may have left in the output directory
RerunPaths == <<Gz("ERR1", ""), Gz("ERR1", "_1"), Gz("ERR1", "_2")>>

\* storage before the call: any of these files, each with any content and
\* an inode of its own
RerunStorages ==
    UNION {{[p \in {RerunPaths[k] : k \in K} |->
                [ino |-> CHOOSE k \in K : RerunPaths[k] = p, data |-> c[p]]] :
              c \in [{RerunPaths[k] : k \in K} -> DataSet]} :
           K \in SUBSET DOMAIN RerunPaths}

InitRerun ==
    /\ fs \in RerunStorages
    /\ cmds = <<>>
    /\ proc = "run"
    /\ ncbi = NcbiFresh
    /\ ex = ExIdle
    /\ dl = DlIdle
    /\ \E run \in RunRows(1), ftp_only \in BOOLEAN : ena = EnaCall(run, 1, ftp_only)
    /\ sra = SraIdle
    /\ mr = MrIdle
    /\ mn = MnIdle

NextRerun ==
    \/ ena_download_enter
    \/ ena_download_file
    \/ ena_download_assign
    \/ ena_download_return
    \/ download_ena_fastq_enter
    \/ download_ena_fastq_transfer
    \/ execute_attempt
    \/ download_ena_fastq_verify

SpecRerun == InitRerun /\ [][NextRerun]_vars

-----------------------------------------------------------------------------
(* Specification of one sra_download call *)

\* the identifier a settings file may already hold
OldUuids == {"u1"}

\* sra_download of run ERR1 with any attempt budget, into a directory that
\* holds any of the run's compressed files, with the settings in any state
InitSra ==
    /\ fs \in RerunStorages
    /\ cmds = <<>>
    /\ proc = "run"
    /\ ncbi \in NcbiStates(OldUuids)
    /\ ex = ExIdle
    /\ dl = DlIdle
    /\ ena = EnaIdle
    /\ \E m \in 0..MaxAttempts : sra = SraCall("ERR1", m)
    /\ mr = MrIdle
    /\ mn = MnIdle

NextSra ==
    \/ sra_download_enter
    \/ sra_download_dumped
    \/ sra_download_compressed
    \/ execute_attempt
    \/ execute_skip

SpecSra == InitSra /\ [][NextSra]_vars

-----------------------------------------------------------------------------
(* Properties of download_ena_fastq *)

\* C1: whenever download_ena_fastq returns a path, the file at that path has
\* the expected MD5 digest, whatever the transports did and whatever the
\* output directory held before the call.
C1_ReturnedFileHasExpectedDigest ==
    dl.pc = "ret" => md5sum(fs, dl.ret) = dl.md5

\* every pass so far used the accelerated transport and ended in a mismatch
AllAcceleratedMismatches(d) ==
    \A i \in DOMAIN d.passes : d.passes[i] = [tool |-> "ascp", ok |-> FALSE]

\* C2: started with the accelerated transport allowed and max_attempts >= 1,
\* once max_attempts accelerated passes in a row have ended in a digest
\* mismatch, the next transfer uses the plain transport.
C2_PlainAfterMaxAttemptsMismatches ==
    ( /\ dl.pc = "transfer"
      /\ ~dl.ftp_only0
      /\ dl.max_attempts >= 1
      /\ Len(dl.passes) = dl.max_attempts
      /\ AllAcceleratedMismatches(dl) )
    => DlCommand(dl).tool = "wget"

\* the pass being verified is a mismatch that takes the counter past the budget
BudgetExhausted ==
    /\ dl.pc = "verify"
    /\ ex.pc = "ret"
    /\ ~DlDigestOk(fs, dl)
    /\ dl.attempt + 1 > dl.max_attempts

\* no accelerated transfer in the log from position i on
NoAscpFrom(log, i) == \A j \in i..Len(log) : log[j].tool # "ascp"

C3Step ==
    \* the transport never goes back to accelerated: at most one switch
    /\ dl.ftp_only => dl'.ftp_only
    \* the counter goes down only at the switch, and then to zero
    /\ dl'.attempt < dl.attempt => (~dl.ftp_only /\ dl'.ftp_only /\ dl'.attempt = 0)
    \* the switch happens only on an exhausted budget
    /\ (~dl.ftp_only /\ dl'.ftp_only) => BudgetExhausted
    \* plain-only (forced, or after the switch): no accelerated transfer runs
    /\ (dl.ftp_only /\ cmds' # cmds) => NoAscpFrom(cmds', Len(cmds) + 1)
    \* the budget exhausted while plain-only: exit(1), no retry
    /\ (BudgetExhausted /\ dl.ftp_only) => proc' = "exit1"
    \* and nothing runs once the process has ended
    /\ proc = "run"

\* C3: in one download_ena_fastq call the transport switches from
\* accelerated to plain at most once, the attempt counter is reset only at
\* that switch, no accelerated transfer runs once plain-only (forced or
\* switched), and a budget exhausted while plain-only ends the process
\* with exit(1) instead of another retry.
C3_OneShotEscalation == [][C3Step]_vars

\* the escalation ran its full course: switched once, then the fatal exit
C3_Witness ==
    /\ proc = "exit1"
    /\ ~dl.ftp_only0 /\ dl.ftp_only
    /\ dl.max_attempts >= 1
    /\ \E i \in DOMAIN cmds : cmds[i].tool = "ascp"
    /\ \E i \in DOMAIN cmds : cmds[i].tool = "wget"

-----------------------------------------------------------------------------
(* Properties of ena_download and sra_download *)

\* file k of the list is one the paired filter has to leave out: it ends in
\* neither _1.fastq.gz nor _2.fastq.gz, and it is not the only file of the
\* list with the basename <run_accession>.fastq.gz
MustBeSkipped(run, fasp, k) ==
    /\ ~endswith(fasp[k], "_1")
    /\ ~endswith(fasp[k], "_2")
    /\ ~(Len(fasp) = 1 /\ fasp[k] = Gz(run.run_accession, ""))

\* C6: for a run of layout PAIRED, ena_download neither downloads nor
\* returns a listed file that ends in neither _1.fastq.gz nor _2.fastq.gz,
\* unless it is the only file listed and is named <run_accession>.fastq.gz;
\* of the files kept, those ending in _2.fastq.gz are r2 and the others r1.
C6_PairedFilter ==
    (ena.pc = "ret" /\ ena.ret.tag = "fastqs" /\ ena.run.library_layout = "PAIRED")
    => /\ \A k \in DOMAIN ena.fasp :
            MustBeSkipped(ena.run, ena.fasp, k)
            => /\ \A j \in DOMAIN ena.called : ena.called[j] # ena.fasp[k]
               /\ ena.ret.r1 # ena.fasp[k]
               /\ ena.ret.r2 # ena.fasp[k]
       /\ ena.ret.r2 # EmptyPath => endswith(ena.ret.r2, "_2")
       /\ ena.ret.r1 # EmptyPath => ~endswith(ena.ret.r1, "_2")

\* the FileSet invariant for one returned dictionary
FileSetOk(f, fastqs) ==
    IF fastqs.single_end
    THEN fastqs.r1 # EmptyPath /\ fastqs.r2 = EmptyPath
    ELSE /\ fastqs.r1 # EmptyPath /\ exists(f, fastqs.r1)
         /\ fastqs.r2 # EmptyPath /\ exists(f, fastqs.r2)

\* C7: every dictionary ena_download or sra_download returns has, when
\* single_end is false, r1 and r2 set to files that exist, and when
\* single_end is true, r1 set and r2 empty.
C7_FileSetInvariant ==
    /\ (ena.pc = "ret" /\ ena.ret.tag = "fastqs") => FileSetOk(fs, ena.ret)
    /\ (sra.pc = "ret" /\ sra.ret.tag = "fastqs") => FileSetOk(fs, sra.ret)

-----------------------------------------------------------------------------
(* Properties of merge_runs *)

\* C9: when merge_runs, called with two or more files, returns, the target
\* holds the bytes the files had at the call, concatenated in list order,
\* and none of the files exists any more.
C9_MergeConcatenates ==
    (mr.pc = "ret" /\ Len(mr.runs) >= 2)
    => /\ exists(fs, mr.output)
       /\ fs[mr.output].data = Concat(mr.before, mr.runs)
       /\ \A k \in DOMAIN mr.runs :
             exists(mr.before, mr.runs[k]) /\ ~exists(fs, mr.runs[k])

\* a merge of two files whose order shows in the result
C9_Witness ==
    /\ mr.pc = "ret"
    /\ Len(mr.runs) = 2
    /\ mr.before[mr.runs[1]].data = <<0>>
    /\ mr.before[mr.runs[2]].data = <<1>>
    /\ fs[mr.output].data = <<0, 1>>

\* C10: when merge_runs, called with exactly one file, returns, the file
\* itself (same inode, same bytes) is at the target path, the source path
\* is gone, every other file is untouched and no command was executed.
C10_SingleFileRenamed ==
    (mr.pc = "ret" /\ Len(mr.runs) = 1)
    => /\ exists(mr.before, mr.runs[1])
       /\ exists(fs, mr.output)
       /\ fs[mr.output] = mr.before[mr.runs[1]]
       /\ ~exists(fs, mr.runs[1])
       /\ \A p \in (DOMAIN fs \cup DOMAIN mr.before) \ {mr.runs[1], mr.output} :
             exists(fs, p) /\ exists(mr.before, p) /\ fs[p] = mr.before[p]
       /\ Len(cmds) = mr.ncmds

\* a rename onto a target that was already there with other content
C10_Witness ==
    /\ mr.pc = "ret"
    /\ Len(mr.runs) = 1
    /\ exists(mr.before, mr.output)
    /\ mr.before[mr.output].data # fs[mr.output].data

-----------------------------------------------------------------------------
(* Properties of main *)

\* the provider other than the primary, and the dictionary or tag it gave
C4Secondary == IF mn.args.provider = "ena" THEN sra.ret ELSE ena.ret

C4Step ==
    ( /\ mn.pc = "secondary"
      /\ mn'.pc # "secondary"
      /\ C4Secondary.tag = (IF mn.args.provider = "ena" THEN "SRA_NOT_FOUND"
                                                         ELSE "ENA_NOT_FOUND") )
    => /\ mn'.ena_data[mn.i].error =
              (IF mn.args.provider = "ena" THEN "ENA_NOT_FOUND&SRA_NOT_FOUND"
                                           ELSE "SRA_NOT_FOUND&ENA_NOT_FOUND")
       /\ C4Secondary.tag # "fastqs"
       /\ mn'.runs = mn.runs
       /\ mn'.names = mn.names

\* C4: with the fallback on, when the primary provider and then the other
\* provider both report not-found for a run, the run's error is the two
\* tags joined by "&", the primary's first, the run has no dictionary of
\* files, and no merge group gains anything from it.
C4_CompoundFallbackTag == [][C4Step]_vars

\* a run of primary SRA tagged with both, next to a run that joined a group
C4_Witness ==
    /\ mn.args.provider = "sra"
    /\ mn.args.group_by_sample
    /\ Len(mn.ena_data) = 2
    /\ mn.ena_data[1].error = ""
    /\ mn.ena_data[2].error = "SRA_NOT_FOUND&ENA_NOT_FOUND"
    /\ mn.names # <<>>
    /\ mn.pc = "loop"

\* the calls of the provider other than the primary
C5IsSecondary(c) == c[2] # mn.args.provider

C5State ==
    \* only-provider mode: the other provider is never called
    /\ mn.args.provider # "none" /\ mn.args.only_provider
       => \A j \in DOMAIN mn.calls : ~C5IsSecondary(mn.calls[j])
    \* any mode: a call of the other provider comes right after the call of
    \* the primary for the same run, and once per run
    /\ \A j \in DOMAIN mn.calls :
          C5IsSecondary(mn.calls[j])
          => /\ j > 1
             /\ mn.calls[j - 1] = <<mn.calls[j][1], mn.args.provider>>
             /\ \A k \in DOMAIN mn.calls : mn.calls[k] = mn.calls[j] => k = j

\* the primary provider's frame holds its not-found tag
C5PrimaryNotFound ==
    IF mn.args.provider = "ena"
    THEN ena.pc = "ret" /\ ena.ret.tag = "ENA_NOT_FOUND"
    ELSE sra.pc = "ret" /\ sra.ret.tag = "SRA_NOT_FOUND"

C5Step ==
    \* only-provider mode: the primary's not-found becomes the run's tag
    /\ ( /\ mn.pc = "primary"
         /\ mn'.pc # "primary"
         /\ mn.args.only_provider
         /\ C5PrimaryNotFound )
       => /\ mn'.pc = "loop"
          /\ mn'.ena_data[mn.i].error =
                 (IF mn.args.provider = "ena" THEN "ENA_NOT_FOUND" ELSE "SRA_NOT_FOUND")
    \* any mode: the other provider is called for the run whose primary
    \* call has just returned not-found
    /\ ( /\ Len(mn'.calls) > Len(mn.calls)
         /\ mn'.calls[Len(mn'.calls)][2] # mn.args.provider )
       => /\ mn.pc = "primary"
          /\ C5PrimaryNotFound
          /\ mn'.calls[Len(mn'.calls)][1] = mn.i
          /\ mn'.i = mn.i

\* C5: in only-provider mode the other provider's downloader is never
\* called and a not-found of the primary is recorded as that provider's
\* single tag; in any mode the other provider is called for a run only
\* after the primary returned not-found for that run, and at most once.
C5_FallbackPolicy == []C5State /\ [][C5Step]_vars

\* only-provider mode with primary SRA and --sra-only unset: a run tagged
\* SRA_NOT_FOUND after one call
C5_Witness ==
    /\ mn.args.provider = "sra"
    /\ mn.args.only_provider
    /\ ~mn.args.sra_only
    /\ mn.pc = "loop"
    /\ mn.i = 2
    /\ mn.ena_data[1].error = "SRA_NOT_FOUND"
    /\ mn.calls = <<<<1, "sra">>>>

\* the targets of the merge_runs calls made for group name
C8Outputs(name) ==
    {mn.merges[j].output : j \in {k \in DOMAIN mn.merges : mn.merges[k].name = name}}

\* merge_runs was called with the list runs and the target output
C8Merged(runs, output) ==
    \E j \in DOMAIN mn.merges : mn.merges[j].runs = runs /\ mn.merges[j].output = output

\* the layout of the group the merge loop has finished with
C8GroupOk(name) ==
    LET vals == mn.runs[name]
    IN  IF Len(vals.r1) > 0 /\ Len(vals.r2) > 0 /\ Len(vals.r1) = Len(vals.r2)
        THEN /\ C8Outputs(name) = {Gz(name, "_R1"), Gz(name, "_R2")}
             /\ C8Merged(vals.r1, Gz(name, "_R1"))
             /\ C8Merged(vals.r2, Gz(name, "_R2"))
             /\ exists(fs, Gz(name, "_R1"))
             /\ exists(fs, Gz(name, "_R2"))
        ELSE /\ C8Outputs(name) = {Gz(name, "")}
             /\ C8Merged(vals.r1, Gz(name, ""))
             /\ exists(fs, Gz(name, ""))
             /\ ~exists(fs, Gz(name, "_R1"))
             /\ ~exists(fs, Gz(name, "_R2"))

\* C8: every group the merge loop has finished with has its r1 list merged
\* into <group>_R1.fastq.gz and its r2 list into <group>_R2.fastq.gz if
\* both lists are non-empty and of equal length, and otherwise only its r1
\* list merged, into <group>.fastq.gz, with no _R1 or _R2 file.
C8_MergeLayout ==
    \A g \in DOMAIN mn.names : g < mn.g => C8GroupOk(mn.names[g])

\* the merge loop ran to its end over a group of a paired and a single-end
\* run: two r1 files, one r2 file
C8_Witness ==
    /\ proc = "done"
    /\ mn.g > Len(mn.names)
    /\ \E g \in DOMAIN mn.names :
          Len(mn.runs[mn.names[g]].r1) = 2 /\ Len(mn.runs[mn.names[g]].r2) = 1

-----------------------------------------------------------------------------
(* Properties of a second run into the same directory *)

RECURSIVE C11FileSet(_, _, _, _)
\* the dictionary ena_download builds from the listing alone: file i and
\* the files after it put into fastqs
C11FileSet(run, fasp, i, fastqs) ==
    IF i > Len(fasp) THEN fastqs
    ELSE IF EnaSkips(run, fasp, i) \/ run.fastq_md5[i] = ""
    THEN C11FileSet(run, fasp, i + 1, fastqs)
    ELSE C11FileSet(run, fasp, i + 1, EnaAssign(fastqs, EnaIsR2(run, fasp, i), fasp[i]))

\* C11: download_ena_fastq called on a target that is already there runs no
\* command, leaves storage as it was and returns the path a successful
\* download returns; so ena_download called with all its target files
\* there runs no command, changes nothing and returns the dictionary a
\* first download returns.
C11_IdempotentRerun ==
    /\ dl.pc = "ret" => dl.ret = dl.fastq
    /\ (dl.pc = "ret" /\ exists(dl.before, dl.fastq))
       => fs = dl.before /\ Len(cmds) = dl.ncmds
    /\ (ena.pc = "ret" /\ ena.ret.tag = "fastqs")
       => ena.ret = C11FileSet(ena.run, ena.run.fastq_aspera, 1, NewFastqs)
    /\ ( /\ ena.pc = "ret"
         /\ \A k \in DOMAIN ena.called : exists(ena.before, ena.called[k]) )
       => fs = ena.before /\ Len(cmds) = ena.ncmds

\* a paired run returned with both mates found in the directory
C11_Witness ==
    /\ ena.pc = "ret"
    /\ Len(ena.called) = 2
    /\ \A k \in DOMAIN ena.called : exists(ena.before, ena.called[k])
    /\ ~ena.ret.single_end
    /\ ena.ret.r1 = Gz("ERR1", "_1")
    /\ ena.ret.r2 = Gz("ERR1", "_2")

-----------------------------------------------------------------------------
(* Properties of the merge groups *)

\* the position in the table of the run a per-run file belongs to (0: none)
C12RunOf(path) ==
    IF \E k \in DOMAIN mn.ena_data : mn.ena_data[k].run_accession = path.stem
    THEN CHOOSE k \in DOMAIN mn.ena_data : mn.ena_data[k].run_accession = path.stem
    ELSE 0

\* the key of the group run k belongs to
C12KeyOf(k) ==
    IF mn.args.group_by_experiment THEN mn.ena_data[k].experiment_accession
                                   ELSE mn.ena_data[k].sample_accession

\* the paths of list l are files of runs already processed without an
\* error, members of group name, in the order of the table
C12ListOk(name, l) ==
    /\ \A j \in DOMAIN l :
          LET k == C12RunOf(l[j])
          IN  /\ k \in DOMAIN mn.ena_data
              /\ k < mn.i
              /\ mn.ena_data[k].error = ""
              /\ C12KeyOf(k) = name
    /\ \A j, h \in DOMAIN l : j < h => C12RunOf(l[j]) < C12RunOf(l[h])

C12State ==
    \A name \in DOMAIN mn.runs :
        C12ListOk(name, mn.runs[name].r1) /\ C12ListOk(name, mn.runs[name].r2)

\* the downloader whose value the run loop is about to read
C12Returned ==
    IF mn.pc = "primary" THEN (IF mn.args.provider = "ena" THEN ena ELSE sra)
                         ELSE (IF mn.args.provider = "ena" THEN sra ELSE ena)

C12Step ==
    mn'.runs # mn.runs
    => /\ mn.pc \in {"primary", "secondary"}
       /\ C12Returned.pc = "ret"
       /\ C12Returned.ret.tag = "fastqs"
       /\ mn'.ena_data[mn.i].error = ""
       /\ LET name == C12KeyOf(mn.i)
              old == IF name \in DOMAIN mn.runs THEN mn.runs[name] ELSE [r1 |-> <<>>, r2 |-> <<>>]
          IN  /\ DOMAIN mn'.runs = DOMAIN mn.runs \cup {name}
              /\ \A n \in DOMAIN mn.runs \ {name} : mn'.runs[n] = mn.runs[n]
              /\ mn'.runs[name].r1 = Append(old.r1, C12Returned.ret.r1)
              /\ mn'.runs[name].r2 \in {old.r2, Append(old.r2, C12Returned.ret.r2)}

\* C12: all through the run loop a group's r1 and r2 lists hold only files
\* of runs whose download returned a dictionary of files, in the order the
\* runs were processed (each addition is at the end of the lists, made when
\* a downloader has returned its dictionary), and a run that has an error
\* annotation has no file in any group.
C12_GroupMembership == []C12State /\ [][C12Step]_vars

\* a paired run and then a single-end run, both in the group of their sample
C12_Witness ==
    /\ mn.pc = "loop"
    /\ mn.i = 3
    /\ mn.args.group_by_sample
    /\ mn.names = <<"SAMN1">>
    /\ mn.runs["SAMN1"].r1 = <<Gz("ERR1", "_1"), Gz("ERR2", "")>>
    /\ mn.runs["SAMN1"].r2 = <<Gz("ERR1", "_2")>>

\* a merge has left a trace: a merge_runs call made or under way, a
\* concatenation in the log, or a file that is not a run's own on storage
C13MergeTrace ==
    \/ mn.merges # <<>>
    \/ mr.pc # "idle"
    \/ \E j \in DOMAIN cmds : cmds[j].tool = "cat"
    \/ \E p \in DOMAIN fs :
          \A k \in DOMAIN mn.ena_data : mn.ena_data[k].run_accession # p.stem

\* every run of the table has been through the run loop
C13AllProcessed ==
    /\ mn.i > Len(mn.ena_data)
    /\ mn.pc \notin {"primary", "secondary"}
    /\ ena.pc = "idle" /\ sra.pc = "idle" /\ dl.pc = "idle"

\* C13: no merge operation (merge_runs call, concatenation, rename or
\* deletion by it) happens before every run of the table has been through
\* the run loop; so when the process is aborted inside the run loop (exit
\* after an integrity failure, or the error of an exhausted command raised),
\* no merge has been made.
C13_MergeAfterAllRuns ==
    /\ C13MergeTrace => C13AllProcessed
    /\ (proc \in {"exit1", "raised"} /\ mn.pc \in {"primary", "secondary"})
       => ~C13MergeTrace

\* the second run is aborted by an integrity failure after the first run
\* has joined a group that would have been merged
C13_Witness ==
    /\ proc = "exit1"
    /\ mn.pc = "primary"
    /\ mn.i = 2
    /\ mn.names # <<>>
    /\ ~mn.args.debug

\* C14: with the debug flag set, no transfer and no extraction command is
\* run for any run, no FASTQ file is created on storage, and no merge is
\* made.
C14_DryRun ==
    (mn.pc # "idle" /\ mn.args.debug)
    => /\ \A j \in DOMAIN cmds : cmds[j].tool \notin {"ascp", "wget", "fasterq-dump"}
       /\ \A p \in DOMAIN fs : p.ext \notin {"fastq", "fastq.gz"}
       /\ mn.merges = <<>>
       /\ mr.pc = "idle"

-----------------------------------------------------------------------------
(* Properties of execute *)

\* the exit code of the last attempt (0 attempts: none)
C15Last == IF ex.rcs = <<>> THEN "none" ELSE ToString(ex.rcs[Len(ex.rcs)])

\* C15: execute returns SRA_FAILED only with is_sra set and on an attempt
\* that exited with code 3; with is_sra set the first exit code 3 ends the
\* call at once, whatever is left of the budget; with is_sra unset an exit
\* code 3 is a failure like any other, retried or raised.
C15_DefinitiveNotFound ==
    /\ (ex.pc = "ret" /\ ex.ret = SRA_FAILED) => (ex.is_sra /\ C15Last = "3")
    /\ (ex.is_sra /\ \E j \in DOMAIN ex.rcs : ex.rcs[j] = 3)
       => /\ ex.pc = "ret"
          /\ ex.ret = SRA_FAILED
          /\ \A j \in DOMAIN ex.rcs : ex.rcs[j] = 3 => j = Len(ex.rcs)
          /\ Len(cmds) = Len(ex.rcs)
    /\ (ex.pc # "idle" /\ ~ex.is_sra /\ C15Last = "3")
       => /\ ex.ret # SRA_FAILED
          /\ ex.pc = (IF ex.attempt < ex.max_attempts THEN "loop" ELSE "raised")

\* not-found on the first of two attempts
C15_Witness ==
    /\ ex.pc = "ret"
    /\ ex.ret = SRA_FAILED
    /\ ex.rcs = <<3>>
    /\ ex.max_attempts = 2

\* C16: execute runs the command at most max_attempts times and stops at
\* the first exit code 0; it ends in exactly one of three ways: a return
\* after an attempt that exited 0, the return of SRA_FAILED, or the last
\* error raised once the budget is used up with no exit code 0; it never
\* returns normally when no attempt exited with 0 or with 3.
C16_AttemptBudget ==
    /\ Len(ex.rcs) <= ex.max_attempts
    /\ Len(cmds) = Len(ex.rcs)
    /\ \A j \in DOMAIN ex.rcs : ex.rcs[j] = 0 => j = Len(ex.rcs)
    /\ C15Last = "0" => (ex.pc = "ret" /\ ex.ret = Returncode0)
    /\ ex.pc = "raised"
       => /\ Len(ex.rcs) = ex.max_attempts
          /\ \A j \in DOMAIN ex.rcs : ex.rcs[j] # 0
    /\ ex.pc = "ret"
       => /\ ex.ret \in {Returncode0, SRA_FAILED}
          /\ \E j \in DOMAIN ex.rcs : ex.rcs[j] \in {0, 3}

-----------------------------------------------------------------------------
(* Properties of the files download_ena_fastq leaves *)

\* C17: in download_ena_fastq a file whose digest does not match is deleted
\* before the next transfer starts and before the fatal exit: no file is at
\* the target path when a transfer is about to start, nor when the process
\* has ended with exit(1).
C17_CorruptFileRemoved ==
    /\ dl.pc = "transfer" => ~exists(fs, dl.fastq)
    /\ (dl.pc = "exit" /\ proc = "exit1") => ~exists(fs, dl.fastq)
    /\ (dl.pc = "verify" /\ ex.pc = "loop" /\ ex.attempt = 0 /\ dl.passes # <<>>)
       => ~exists(fs, dl.fastq)

\* the fatal exit after mismatches on both transports
C17_Witness ==
    /\ proc = "exit1"
    /\ dl.pc = "exit"
    /\ dl.max_attempts = 1
    /\ Len(dl.passes) = 4
    /\ dl.passes[2].tool = "ascp"
    /\ dl.passes[4].tool = "wget"

-----------------------------------------------------------------------------
(* Properties of sra_download and check_sratools *)

\* the log from the call of sra_download on
C18Log == SubSeq(cmds, sra.ncmds + 1, Len(cmds))

C18Ran(tool) == \E j \in DOMAIN C18Log : C18Log[j].tool = tool

C18State ==
    \* the extraction tool runs only if neither file was there at the call
    /\ C18Ran("fasterq-dump")
       => /\ ~exists(sra.before, Gz(sra.accession, ""))
          /\ ~exists(sra.before, Gz(sra.accession, "_2"))
    \* not-found: no compression, no dictionary of files
    /\ (sra.pc = "ret" /\ sra.ret.tag = SRA_FAILED)
       => C18Ran("fasterq-dump") /\ ~C18Ran("pigz")
    \* otherwise the layout follows from <accession>_2.fastq.gz alone
    /\ (sra.pc = "ret" /\ sra.ret.tag # SRA_FAILED)
       => /\ sra.ret.tag = "fastqs"
          /\ IF exists(fs, Gz(sra.accession, "_2"))
             THEN /\ sra.ret.r1 = Gz(sra.accession, "_1")
                  /\ sra.ret.r2 = Gz(sra.accession, "_2")
                  /\ ~sra.ret.single_end
             ELSE /\ sra.ret.r1 = Gz(sra.accession, "")
                  /\ sra.ret.r2 = EmptyPath
                  /\ sra.ret.single_end

C18Step ==
    \* the tool's not-found is passed on at once
    (sra.pc = "dump" /\ ex.pc = "ret" /\ ex.ret = "SRA_NOT_FOUND" /\ sra' # sra)
    => /\ sra'.pc = "ret"
       /\ sra'.ret.tag = "SRA_NOT_FOUND"
       /\ cmds' = cmds
       /\ fs' = fs

\* C18: sra_download runs the extraction tool only if neither
\* <accession>.fastq.gz nor <accession>_2.fastq.gz is in the output
\* directory; when the tool reports no data it returns SRA_FAILED without
\* compressing and without a dictionary of files; otherwise it returns the
\* paired layout (r1 <accession>_1.fastq.gz, r2 <accession>_2.fastq.gz)
\* exactly when <accession>_2.fastq.gz exists, else single-end with r1
\* <accession>.fastq.gz.
C18_SraControlFlow == []C18State /\ [][C18Step]_vars

\* a paired extraction: the tool, then the compression, then both mates
C18_Witness ==
    /\ sra.pc = "ret"
    /\ Len(cmds) = 2
    /\ cmds[1].tool = "fasterq-dump"
    /\ cmds[2].tool = "pigz"
    /\ sra.before = <<>>
    /\ ~sra.ret.single_end
    /\ exists(fs, sra.ret.r1)
    /\ exists(fs, sra.ret.r2)

\* the GUID entries of a settings file
C19Guids(n) == {j \in DOMAIN n.lines : n.lines[j].guid}

\* C19: whatever the settings directory and file were, after check_sratools
\* the file exists and holds a GUID entry; a further call, and one more
\* after it, changes nothing; a GUID entry that was there is kept as it
\* was and none is added to it, and every other line stays in place.
C19_BootstrapIdempotent ==
    sra.pc \notin {"idle", "start"}
    => /\ ncbi.home /\ ncbi.user
       /\ C19Guids(ncbi) # {}
       /\ check_sratools(ncbi) = ncbi
       /\ check_sratools(check_sratools(ncbi)) = ncbi
       /\ SubSeq(ncbi.lines, 1, Len(sra.ncbi0.lines)) = sra.ncbi0.lines
       /\ IF sra.ncbi0.home /\ sra.ncbi0.user /\ C19Guids(sra.ncbi0) # {}
          THEN ncbi = sra.ncbi0
          ELSE /\ Len(ncbi.lines) = Len(sra.ncbi0.lines) + 1
               /\ C19Guids(ncbi) = {Len(ncbi.lines)}

\* a settings file that held a GUID entry and another line is left alone
C19_Witness ==
    /\ sra.pc = "ret"
    /\ sra.ncbi0.lines = <<[guid |-> FALSE, uuid |-> "other"], [guid |-> TRUE, uuid |-> "u1"]>>
    /\ ncbi = sra.ncbi0

-----------------------------------------------------------------------------
(* Properties of the shape of the merge groups *)

\* C20: every merge group that exists has a non-empty r1 list, at least as
\* long as its r2 list; the names listed are the groups; merge_runs is
\* never called with an empty list.
C20_GroupShape ==
    /\ \A name \in DOMAIN mn.runs :
          /\ Len(mn.runs[name].r1) >= 1
          /\ Len(mn.runs[name].r1) >= Len(mn.runs[name].r2)
          /\ \E g \in DOMAIN mn.names : mn.names[g] = name
    /\ \A g \in DOMAIN mn.names : mn.names[g] \in DOMAIN mn.runs
    /\ \A j \in DOMAIN mn.merges : mn.merges[j].runs # <<>>
    /\ mr.pc # "idle" => mr.runs # <<>>

\* the second merge of a group of two paired runs is under way
C20_Witness ==
    /\ mn.pc = "merge_r2"
    /\ mr.pc = "cat"
    /\ Len(mr.runs) = 2
    /\ Len(mn.merges) = 2
    /\ Len(mn.merges[1].runs) = 2

-----------------------------------------------------------------------------
(* Termination of download_ena_fastq and execute *)

\* download_ena_fastq is over: the path returned, or the process ended by
\* exit(1) or by the error of a command raised
C21Over == dl.pc = "ret" \/ proc \in {"exit1", "raised"}

\* the rounds and the invocations stay within what max_attempts allows
C21Bounded ==
    /\ Len(dl.passes) <= 2 * (dl.max_attempts + 1)
    /\ Len(ex.rcs) <= ex.max_attempts
    /\ Len(cmds) <= 2 * (dl.max_attempts + 1) * dl.max_attempts

\* C21: with every command invocation returning, download_ena_fastq comes
\* to an end whatever the transports and the digests do, by returning the
\* file or by a fatal end of the process, after at most 2 * (max_attempts
\* + 1) rounds of transfer and verification, and each execute call makes
\* at most max_attempts invocations.
C21_Terminates == []C21Bounded /\ <>C21Over

\* the longest course: every round of both transports used, then exit(1)
C21_Witness ==
    /\ proc = "exit1"
    /\ dl.max_attempts = MaxAttempts
    /\ Len(dl.passes) = 2 * (dl.max_attempts + 1)
    /\ Len(cmds) = 2 * (dl.max_attempts + 1) * dl.max_attempts

-----------------------------------------------------------------------------
(* Properties of the storage after the merge loop *)

\* the merge loop has run to its end
C22MergeDone == mn.pc = "done" /\ mn.g > Len(mn.names)

\* no file of list l is on storage under its own name any more
C22Consumed(l) == \A j \in DOMAIN l : ~exists(fs, l[j])

\* C22: once the merge loop has run to its end, no file listed in a
\* group's r1 or r2 is left on storage under its per-run name, whatever
\* mix of single-end and paired runs the group holds.
C22_MergeCleanup ==
    C22MergeDone
    => \A name \in DOMAIN mn.runs :
          C22Consumed(mn.runs[name].r1) /\ C22Consumed(mn.runs[name].r2)

====
